---------------------------- MODULE Spec2Model ----------------------------
(***************************************************************************)
(* KYC verification lifecycle engine of the cheese-app kyc module.         *)
(*                                                                         *)
(* The store of KycVerification rows is the sequence `cases`; a row's id   *)
(* is its index (ids are generated at insertion, in creation order).       *)
(* Every public method of KycService, and the webhook endpoint of          *)
(* KycController, is one action.  `events` holds what the last operation   *)
(* handed to the event emitter, `last` what the last operation was called  *)
(* with and what it returned or threw.                                     *)
(*                                                                         *)
(* Not modelled: subject data (names, email, phone, date of birth,         *)
(* country), provider name, createdAt / updatedAt / submittedAt.  No       *)
(* method reads them to take a decision.  The risk assessment is reduced   *)
(* to its riskLevel, the only part the engine reads.                       *)
(***************************************************************************)
EXTENDS Integers, Sequences, FiniteSets, TLC

\* ------------------------------------------------------------------ bounds
MaxCases == 2
MaxTime == 2
MaxSessions == 3
MaxOps == 4
MaxUserOps == 6
MaxLen == 2
MaxQueryOps == 5
MaxMetaOps == 3
MaxRaceOps == 3
MaxGuardOps == 3

\* ------------------------------------------------------- program constants
MaxAttempts == 3

NULL == "null"
NoTime == 0
None == << >>
Some(x) == << x >>

PENDING == "pending"
IN_PROGRESS == "in_progress"
APPROVED == "approved"
REJECTED == "rejected"
EXPIRED == "expired"
REQUIRES_REVIEW == "requires_review"

KycStatus == {PENDING, IN_PROGRESS, APPROVED, REJECTED, EXPIRED, REQUIRES_REVIEW}

BASIC == "basic"
INTERMEDIATE == "intermediate"
ADVANCED == "advanced"

KycLevel == {BASIC, INTERMEDIATE, ADVANCED}

\* ---------------------------------------------------------- input domains
Users == {"u1", "u2"}
CaseIds == 1..MaxCases
VerificationIds == 1..MaxSessions
Times == 1..MaxTime
MetaKeys == {"k1", "k2"}
MetaObjects == {[k \in {"k1"} |-> "a"], [k \in {"k1", "k2"} |-> "b"]}
RiskLevels == {"low", "medium", "high"}

VARIABLES cases, sessions, now, events, last, ops, inflight, base, guard

vars == <<cases, sessions, now, events, last, ops, inflight, base, guard>>

\* What is between two awaits: the calls running at once, each having read
\* its row and not yet saved it, and the guard between its two queries.
raceVars == <<inflight, base, guard>>

\* ----------------------------------------------------------------- helpers

\* JavaScript truthiness of an optional string: undefined, null and "" are falsy.
Truthy(x) == x # NULL /\ x # ""

\* { ...a, ...b } on metadata objects; spreading null contributes no key.
Spread(a, b) ==
    LET fa == IF a = None THEN << >> ELSE a[1]
        fb == IF b = None THEN << >> ELSE b[1]
    IN [k \in (DOMAIN fa) \cup (DOMAIN fb) |-> IF k \in DOMAIN fb THEN fb[k] ELSE fa[k]]

\* The provider-hosted redirect target of a session.
VerificationUrl(vid) == vid

IsKycExpired(kyc, t) ==
    IF kyc.expiresAt = NoTime THEN FALSE ELSE t > kyc.expiresAt

\* repository.findOne({ where: { userId, status } }): no ORDER BY, so any
\* matching row may come back; 0 stands for null.
FindOneByUserAndStatus(store, u, st) ==
    LET hits == {i \in DOMAIN store : store[i].userId = u /\ store[i].status = st}
    IN IF hits = {} THEN {0} ELSE hits

\* A lookup by verificationId that falls back to the first row.
FindByVerificationIdOrFirst(store, vid) ==
    LET hits == {i \in DOMAIN store : store[i].verificationId = vid}
    IN IF hits # {} THEN CHOOSE i \in hits : TRUE
       ELSE IF store # << >> THEN 1 ELSE 0

\* repository.findOne({ where: { verificationId } }); the column is unique.
FindByVerificationId(store, vid) ==
    LET hits == {i \in DOMAIN store : store[i].verificationId = vid}
    IN IF hits = {} THEN 0 ELSE CHOOSE i \in hits : TRUE

NoEvents == << >>

\* The `data` argument of handleWebhook when nothing is passed.
NoData ==
    [rejectionReason |-> NULL, riskAssessment |-> NULL, metadata |-> None,
     requiresReview |-> FALSE]

\* No x-webhook-signature header.
UnsignedDigest == [kind |-> "missing", key |-> NULL, msg |-> << >>]

\* How an operation was invoked: by a caller of the service, or by the
\* webhook endpoint with the request's signature and timestamp headers.
Invocation(op, okResult, signature, timestamp) ==
    [op |-> op, okResult |-> okResult, signature |-> signature, timestamp |-> timestamp]

\* No x-webhook-timestamp header, or an empty one: both are falsy.
NoTimestamp == << >>

Direct(op) == Invocation(op, "ok", UnsignedDigest, NoTimestamp)

\* The record of an operation: its arguments and what it returned or threw.
LastOp(call, result, msg, id, vid, user, status, data) ==
    [op |-> call.op, result |-> result, msg |-> msg, id |-> id, vid |-> vid,
     user |-> user, status |-> status, data |-> data, level |-> NULL,
     signature |-> call.signature, timestamp |-> call.timestamp,
     provider |-> << >>, canTransact |-> FALSE]

\* The same record for an operation that called the provider gateway and got
\* `resp` from it.
WithProvider(l, resp) == [l EXCEPT !.provider = << resp >>]

\* The record of a read-only operation: what it was asked, the row it looked
\* at (0 for none) and the value it returned.
QueryOp(op, result, id, user, status, level) ==
    [LastOp(Direct(op), result, NULL, id, 0, user, status, NoData) EXCEPT !.level = level]

\* ------------------------------------------------------ provider gateway

BAD_GATEWAY == 502
SERVICE_UNAVAILABLE == 503

\* The HTTP status of a response by which the provider refuses a request; 0
\* stands for a response object without a status.
RejectionStatuses == {0, 422}

\* What the provider's API does with POST /verifications: it opens a session
\* (and may or may not supply expires_at), it answers with an error
\* response, or no response arrives.
ProviderReplies(expiries) ==
    {[kind |-> "session", httpStatus |-> 0, expiresAt |-> e] : e \in expiries}
    \cup {[kind |-> "rejected", httpStatus |-> st, expiresAt |-> NoTime] :
            st \in RejectionStatuses}
    \cup {[kind |-> "unreachable", httpStatus |-> 0, expiresAt |-> NoTime]}

\* createVerification that treats an error response as an opened session.
CreateVerificationSwallowsRejection(reply) ==
    IF reply.kind \in {"session", "rejected"}
    THEN [ok |-> TRUE, reply |-> reply.kind, error |-> NULL, status |-> 0,
          expiresAt |-> reply.expiresAt]
    ELSE [ok |-> FALSE, reply |-> reply.kind,
          error |-> "KYC provider service unavailable",
          status |-> SERVICE_UNAVAILABLE,
          expiresAt |-> NoTime]

\* createVerification: the mapped session, or the HttpException thrown with
\* its message and status.
CreateVerification(reply) ==
    IF reply.kind = "session"
    THEN [ok |-> TRUE, reply |-> reply.kind, error |-> NULL, status |-> 0,
          expiresAt |-> reply.expiresAt]
    ELSE IF reply.kind = "rejected"
    THEN [ok |-> FALSE, reply |-> reply.kind,
          error |-> "Failed to initiate KYC verification",
          status |-> IF reply.httpStatus # 0 THEN reply.httpStatus ELSE BAD_GATEWAY,
          expiresAt |-> NoTime]
    ELSE [ok |-> FALSE, reply |-> reply.kind,
          error |-> "KYC provider service unavailable",
          status |-> SERVICE_UNAVAILABLE,
          expiresAt |-> NoTime]

ProviderOutcomes(expiries) ==
    {CreateVerification(reply) : reply \in ProviderReplies(expiries)}

\* -------------------------------------------------------------- initiateKyc

\* The two findOne checks before the provider is called.  The result is the
\* set of outcomes the checks can have: the second findOne may return any of
\* the user's approved rows.
InitiateChecks(store, u, t) ==
    IF FindOneByUserAndStatus(store, u, IN_PROGRESS) # {0}
    THEN {"User already has a KYC verification in progress"}
    ELSE {IF verifiedKyc # 0 /\ ~IsKycExpired(store[verifiedKyc], t)
          THEN "User is already verified"
          ELSE "pass" : verifiedKyc \in FindOneByUserAndStatus(store, u, APPROVED)}

\* repository.create without attemptCount, which then takes the column default.
NewCaseDefaultAttempts(u, level, metadata, vid, expiresAt) ==
    [userId |-> u,
     verificationId |-> vid,
     verificationUrl |-> VerificationUrl(vid),
     status |-> PENDING,
     level |-> IF level = NULL THEN BASIC ELSE level,
     attemptCount |-> 0,
     isManualReview |-> FALSE,
     completedAt |-> NoTime,
     expiresAt |-> expiresAt,
     rejectionReason |-> NULL,
     riskAssessment |-> NULL,
     metadata |-> metadata,
     reviewedBy |-> NULL,
     reviewNotes |-> NULL,
     address |-> NULL]

\* repository.create({...}) of initiateKyc, with the entity's column defaults.
NewCase(u, level, metadata, vid, expiresAt) ==
    [userId |-> u,
     verificationId |-> vid,
     verificationUrl |-> VerificationUrl(vid),
     status |-> PENDING,
     level |-> IF level = NULL THEN BASIC ELSE level,
     attemptCount |-> 1,
     isManualReview |-> FALSE,
     completedAt |-> NoTime,
     expiresAt |-> expiresAt,
     rejectionReason |-> NULL,
     riskAssessment |-> NULL,
     metadata |-> metadata,
     reviewedBy |-> NULL,
     reviewNotes |-> NULL,
     address |-> NULL]

InitiatedEvent(id, kyc) ==
    [type |-> "kyc.initiated", kycId |-> id, userId |-> kyc.userId,
     verificationId |-> kyc.verificationId]

InitiateKyc(u, level, metadata, outcomes) ==
    \E check \in InitiateChecks(cases, u, now) :
        IF check # "pass"
        THEN /\ last' = LastOp(Direct("initiateKyc"), "ConflictException", check, 0, 0, u, NULL, NoData)
             /\ events' = NoEvents
             /\ UNCHANGED <<cases, sessions, now>>
        ELSE \E resp \in outcomes :
            IF ~resp.ok
            THEN /\ last' = WithProvider(LastOp(Direct("initiateKyc"), "HttpException", resp.error,
                                                0, 0, u, NULL, NoData), resp)
                 /\ events' = NoEvents
                 /\ UNCHANGED <<cases, sessions, now>>
            ELSE /\ Len(cases) < MaxCases
                 /\ sessions < MaxSessions
                 /\ LET vid == sessions + 1
                        kyc == NewCase(u, level, metadata, vid, resp.expiresAt)
                        id == Len(cases) + 1
                    IN /\ cases' = Append(cases, kyc)
                       /\ sessions' = vid
                       /\ events' = <<InitiatedEvent(id, kyc)>>
                       /\ last' = WithProvider(LastOp(Direct("initiateKyc"), "ok", NULL, id, vid, u,
                                                      NULL, NoData), resp)
                 /\ UNCHANGED now

\* ------------------------------------------------------------ handleWebhook

\* handleWebhook with the manual-review check skipped for a reported approval.
WebhookApplyKeepsApproval(kyc, status, data, t) ==
    LET k1 == [kyc EXCEPT !.status = status]
        k2 == IF Truthy(data.rejectionReason)
              THEN [k1 EXCEPT !.rejectionReason = data.rejectionReason] ELSE k1
        k3 == IF data.riskAssessment # NULL
              THEN [k2 EXCEPT !.riskAssessment = data.riskAssessment] ELSE k2
        k4 == IF data.metadata # None
              THEN [k3 EXCEPT !.metadata = Some(Spread(k3.metadata, data.metadata))] ELSE k3
        k5 == IF status = APPROVED \/ status = REJECTED
              THEN [k4 EXCEPT !.completedAt = t] ELSE k4
    IN IF status # APPROVED /\ (data.riskAssessment = "high" \/ data.requiresReview)
       THEN [k5 EXCEPT !.status = REQUIRES_REVIEW, !.isManualReview = TRUE]
       ELSE k5

\* handleWebhook with a reported `expired` dropped instead of stored.
WebhookApplyDropsExpired(kyc, status, data, t) ==
    LET k1 == IF status = EXPIRED THEN kyc ELSE [kyc EXCEPT !.status = status]
        k2 == IF Truthy(data.rejectionReason)
              THEN [k1 EXCEPT !.rejectionReason = data.rejectionReason] ELSE k1
        k3 == IF data.riskAssessment # NULL
              THEN [k2 EXCEPT !.riskAssessment = data.riskAssessment] ELSE k2
        k4 == IF data.metadata # None
              THEN [k3 EXCEPT !.metadata = Some(Spread(k3.metadata, data.metadata))] ELSE k3
        k5 == IF status = APPROVED \/ status = REJECTED
              THEN [k4 EXCEPT !.completedAt = t] ELSE k4
    IN IF data.riskAssessment = "high" \/ data.requiresReview
       THEN [k5 EXCEPT !.status = REQUIRES_REVIEW, !.isManualReview = TRUE]
       ELSE k5

\* The body of KycService.handleWebhook between the lookup and the save.
WebhookApply(kyc, status, data, t) ==
    LET k1 == [kyc EXCEPT !.status = status]
        k2 == IF Truthy(data.rejectionReason)
              THEN [k1 EXCEPT !.rejectionReason = data.rejectionReason] ELSE k1
        k3 == IF data.riskAssessment # NULL
              THEN [k2 EXCEPT !.riskAssessment = data.riskAssessment] ELSE k2
        k4 == IF data.metadata # None
              THEN [k3 EXCEPT !.metadata = Some(Spread(k3.metadata, data.metadata))] ELSE k3
        k5 == IF status = APPROVED \/ status = REJECTED
              THEN [k4 EXCEPT !.completedAt = t] ELSE k4
    IN IF data.riskAssessment = "high" \/ data.requiresReview
       THEN [k5 EXCEPT !.status = REQUIRES_REVIEW, !.isManualReview = TRUE]
       ELSE k5

\* handleWebhook that reports a status change only when the status changed.
WebhookEventsOnChange(id, oldStatus, updatedKyc, status, vid) ==
    (IF oldStatus # updatedKyc.status
     THEN <<[type |-> "kyc.status.changed", kycId |-> id, userId |-> updatedKyc.userId,
             oldStatus |-> oldStatus, newStatus |-> status, verificationId |-> vid]>>
     ELSE << >>)
    \o (IF status = APPROVED
        THEN <<[type |-> "kyc.approved", kycId |-> id, userId |-> updatedKyc.userId,
                level |-> updatedKyc.level]>>
        ELSE IF status = REJECTED
        THEN <<[type |-> "kyc.rejected", kycId |-> id, userId |-> updatedKyc.userId,
                reason |-> updatedKyc.rejectionReason]>>
        ELSE << >>)

\* The events handleWebhook emits after the save.
WebhookEvents(id, oldStatus, updatedKyc, status, vid) ==
    <<[type |-> "kyc.status.changed", kycId |-> id, userId |-> updatedKyc.userId,
       oldStatus |-> oldStatus, newStatus |-> status, verificationId |-> vid]>>
    \o (IF status = APPROVED
        THEN <<[type |-> "kyc.approved", kycId |-> id, userId |-> updatedKyc.userId,
                level |-> updatedKyc.level]>>
        ELSE IF status = REJECTED
        THEN <<[type |-> "kyc.rejected", kycId |-> id, userId |-> updatedKyc.userId,
                reason |-> updatedKyc.rejectionReason]>>
        ELSE << >>)

\* KycService.handleWebhook(verificationId, status, data).
ServiceHandleWebhook(call, vid, status, data) ==
    LET id == FindByVerificationId(cases, vid)
    IN IF id = 0
       THEN /\ last' = LastOp(call, "NotFoundException", "KYC verification not found",
                              0, vid, NULL, status, data)
            /\ events' = NoEvents
            /\ UNCHANGED <<cases, sessions, now>>
       ELSE LET updatedKyc == WebhookApply(cases[id], status, data, now)
            IN /\ cases' = [cases EXCEPT ![id] = updatedKyc]
               /\ events' = WebhookEvents(id, cases[id].status, updatedKyc, status, vid)
               /\ last' = LastOp(call, call.okResult, NULL, id, vid, updatedKyc.userId,
                                 status, data)
               /\ UNCHANGED <<sessions, now>>

\* ------------------------------------------------------------- manualReview

ManualReviewCheck(kyc) ==
    IF ~kyc.isManualReview
    THEN "This verification does not require manual review"
    ELSE "pass"

\* manualReview that leaves the manual-review flag as it found it.
ManualReviewApplyKeepsFlag(kyc, dto, t) ==
    [kyc EXCEPT !.status = dto.status,
                !.reviewedBy = dto.reviewedBy,
                !.reviewNotes = dto.reviewNotes,
                !.completedAt = t]

ManualReviewApply(kyc, dto, t) ==
    [kyc EXCEPT !.status = dto.status,
                !.reviewedBy = dto.reviewedBy,
                !.reviewNotes = dto.reviewNotes,
                !.completedAt = t,
                !.isManualReview = FALSE]

ManualReview(id, dto) ==
    IF id \notin DOMAIN cases
    THEN /\ last' = LastOp(Direct("manualReview"), "NotFoundException", "KYC verification not found",
                           id, 0, NULL, dto.status, NoData)
         /\ events' = NoEvents
         /\ UNCHANGED <<cases, sessions, now>>
    ELSE IF ManualReviewCheck(cases[id]) # "pass"
    THEN /\ last' = LastOp(Direct("manualReview"), "BadRequestException", ManualReviewCheck(cases[id]),
                           id, cases[id].verificationId, cases[id].userId, dto.status, NoData)
         /\ events' = NoEvents
         /\ UNCHANGED <<cases, sessions, now>>
    ELSE LET updatedKyc == ManualReviewApply(cases[id], dto, now)
         IN /\ cases' = [cases EXCEPT ![id] = updatedKyc]
            /\ events' = <<[type |-> "kyc.manually.reviewed", kycId |-> id,
                            userId |-> updatedKyc.userId, status |-> dto.status,
                            reviewedBy |-> dto.reviewedBy]>>
            /\ last' = LastOp(Direct("manualReview"), "ok", NULL, id, updatedKyc.verificationId,
                              updatedKyc.userId, dto.status, NoData)
            /\ UNCHANGED <<sessions, now>>

\* ----------------------------------------------------------------- retryKyc

\* retryKyc that also accepts a case still pending.
RetryCheckAllowsPending(kyc) ==
    IF kyc.status # REJECTED /\ kyc.status # EXPIRED /\ kyc.status # PENDING
    THEN "Can only retry rejected or expired KYC"
    ELSE IF kyc.attemptCount >= MaxAttempts
    THEN "Maximum retry attempts reached"
    ELSE "pass"

\* retryKyc with the attempt limit compared by > instead of >=.
RetryCheckOffByOne(kyc) ==
    IF kyc.status # REJECTED /\ kyc.status # EXPIRED
    THEN "Can only retry rejected or expired KYC"
    ELSE IF kyc.attemptCount > MaxAttempts
    THEN "Maximum retry attempts reached"
    ELSE "pass"

RetryCheck(kyc) ==
    IF kyc.status # REJECTED /\ kyc.status # EXPIRED
    THEN "Can only retry rejected or expired KYC"
    ELSE IF kyc.attemptCount >= MaxAttempts
    THEN "Maximum retry attempts reached"
    ELSE "pass"

\* retryKyc that takes the new session's url and keeps the old session's id.
RetryApplyKeepsVerificationId(kyc, vid, expiresAt) ==
    [kyc EXCEPT !.verificationUrl = VerificationUrl(vid),
                !.status = PENDING,
                !.attemptCount = @ + 1,
                !.expiresAt = expiresAt,
                !.completedAt = NoTime,
                !.rejectionReason = NULL]

\* retryKyc that keeps the verification id of the failed attempt.
RetryApplyKeepsSession(kyc, vid, expiresAt) ==
    [kyc EXCEPT !.status = PENDING,
                !.attemptCount = @ + 1,
                !.expiresAt = expiresAt,
                !.completedAt = NoTime,
                !.rejectionReason = NULL]

\* retryKyc that keeps the completion time of the failed attempt.
RetryApplyKeepsCompletedAt(kyc, vid, expiresAt) ==
    [kyc EXCEPT !.verificationId = vid,
                !.verificationUrl = VerificationUrl(vid),
                !.status = PENDING,
                !.attemptCount = @ + 1,
                !.expiresAt = expiresAt,
                !.rejectionReason = NULL]

RetryApply(kyc, vid, expiresAt) ==
    [kyc EXCEPT !.verificationId = vid,
                !.verificationUrl = VerificationUrl(vid),
                !.status = PENDING,
                !.attemptCount = @ + 1,
                !.expiresAt = expiresAt,
                !.completedAt = NoTime,
                !.rejectionReason = NULL]

\* retryKyc that counts the attempt before it asks the provider.
RetryKycCountsFailedAttempt(id, outcomes) ==
    IF id \notin DOMAIN cases
    THEN /\ last' = LastOp(Direct("retryKyc"), "NotFoundException", "KYC verification not found",
                           id, 0, NULL, NULL, NoData)
         /\ events' = NoEvents
         /\ UNCHANGED <<cases, sessions, now>>
    ELSE IF RetryCheck(cases[id]) # "pass"
    THEN /\ last' = LastOp(Direct("retryKyc"), "BadRequestException", RetryCheck(cases[id]),
                           id, cases[id].verificationId, cases[id].userId, NULL, NoData)
         /\ events' = NoEvents
         /\ UNCHANGED <<cases, sessions, now>>
    ELSE \E resp \in outcomes :
        IF ~resp.ok
        THEN /\ last' = WithProvider(LastOp(Direct("retryKyc"), "HttpException", resp.error,
                               id, cases[id].verificationId, cases[id].userId, NULL, NoData), resp)
             /\ events' = NoEvents
             /\ cases' = [cases EXCEPT ![id].attemptCount = @ + 1]
             /\ UNCHANGED <<sessions, now>>
        ELSE /\ sessions < MaxSessions
             /\ LET vid == sessions + 1
                IN /\ cases' = [cases EXCEPT ![id] = RetryApply(cases[id], vid, resp.expiresAt)]
                   /\ sessions' = vid
                   /\ last' = WithProvider(LastOp(Direct("retryKyc"), "ok", NULL, id, vid,
                                                  cases[id].userId, NULL, NoData), resp)
             /\ events' = NoEvents
             /\ UNCHANGED now

RetryKyc(id, outcomes) ==
    IF id \notin DOMAIN cases
    THEN /\ last' = LastOp(Direct("retryKyc"), "NotFoundException", "KYC verification not found",
                           id, 0, NULL, NULL, NoData)
         /\ events' = NoEvents
         /\ UNCHANGED <<cases, sessions, now>>
    ELSE IF RetryCheck(cases[id]) # "pass"
    THEN /\ last' = LastOp(Direct("retryKyc"), "BadRequestException", RetryCheck(cases[id]),
                           id, cases[id].verificationId, cases[id].userId, NULL, NoData)
         /\ events' = NoEvents
         /\ UNCHANGED <<cases, sessions, now>>
    ELSE \E resp \in outcomes :
        IF ~resp.ok
        THEN /\ last' = WithProvider(LastOp(Direct("retryKyc"), "HttpException", resp.error,
                               id, cases[id].verificationId, cases[id].userId, NULL, NoData), resp)
             /\ events' = NoEvents
             /\ UNCHANGED <<cases, sessions, now>>
        ELSE /\ sessions < MaxSessions
             /\ LET vid == sessions + 1
                IN /\ cases' = [cases EXCEPT ![id] = RetryApply(cases[id], vid, resp.expiresAt)]
                   /\ sessions' = vid
                   /\ last' = WithProvider(LastOp(Direct("retryKyc"), "ok", NULL, id, vid,
                                                  cases[id].userId, NULL, NoData), resp)
             /\ events' = NoEvents
             /\ UNCHANGED now

\* ---------------------------------------------------------------- updateKyc

\* updateKyc without the test for an approved case.
UpdateCheckAlwaysPasses(kyc) == "pass"

UpdateCheck(kyc) ==
    IF kyc.status = APPROVED
    THEN "Cannot update approved KYC verification"
    ELSE "pass"

\* Object.assign(kyc, dto): every key the dto carries overwrites the row's.
UpdateApply(kyc, dto) ==
    [kyc EXCEPT !.address = IF dto.address # NULL THEN dto.address ELSE @,
                !.metadata = IF dto.metadata # None THEN dto.metadata ELSE @]

UpdateKyc(id, dto) ==
    IF id \notin DOMAIN cases
    THEN /\ last' = LastOp(Direct("updateKyc"), "NotFoundException", "KYC verification not found",
                           id, 0, NULL, NULL, NoData)
         /\ events' = NoEvents
         /\ UNCHANGED <<cases, sessions, now>>
    ELSE IF UpdateCheck(cases[id]) # "pass"
    THEN /\ last' = LastOp(Direct("updateKyc"), "BadRequestException", UpdateCheck(cases[id]),
                           id, cases[id].verificationId, cases[id].userId, NULL, NoData)
         /\ events' = NoEvents
         /\ UNCHANGED <<cases, sessions, now>>
    ELSE /\ cases' = [cases EXCEPT ![id] = UpdateApply(cases[id], dto)]
         /\ last' = LastOp(Direct("updateKyc"), "ok", NULL, id, cases[id].verificationId,
                           cases[id].userId, NULL, [NoData EXCEPT !.metadata = dto.metadata])
         /\ events' = NoEvents
         /\ UNCHANGED <<sessions, now>>

\* ------------------------------------------------------------------ queries

\* getPendingReviews(): findAndCount({ where: { status: REQUIRES_REVIEW,
\* isManualReview: true } }); the first page holds every such row, there
\* being fewer rows than its default limit of 20.
GetPendingReviews(store) ==
    {i \in DOMAIN store :
        store[i].status = REQUIRES_REVIEW /\ store[i].isManualReview}

\* getKycById(id): the row as stored, or NotFoundException.
GetKycById(id) ==
    /\ last' = IF id \in DOMAIN cases
               THEN QueryOp("getKycById", "row", id, cases[id].userId, cases[id].status,
                            cases[id].level)
               ELSE QueryOp("getKycById", "NotFoundException", id, NULL, NULL, NULL)
    /\ events' = NoEvents
    /\ UNCHANGED <<cases, sessions, now>>

\* ORDER BY completedAt DESC: row a sorts strictly before row b.  PostgreSQL
\* puts NULL first in a descending order.
SortsBefore(a, b) ==
    \/ a.completedAt = NoTime /\ b.completedAt # NoTime
    \/ a.completedAt # NoTime /\ b.completedAt # NoTime /\ a.completedAt > b.completedAt

\* findOne of the approved rows in ascending order of completedAt.
FindEarliestApproved(store, u) ==
    LET hits == {i \in DOMAIN store : store[i].userId = u /\ store[i].status = APPROVED}
        first == {i \in hits : \A j \in hits : ~SortsBefore(store[i], store[j])}
    IN IF hits = {} THEN {0} ELSE first

\* repository.findOne({ where: { userId, status: APPROVED },
\* order: { completedAt: 'DESC' } }): the rows that can come back, rows with
\* equal completedAt being in no defined order; 0 stands for null.
FindLatestApproved(store, u) ==
    LET hits == {i \in DOMAIN store : store[i].userId = u /\ store[i].status = APPROVED}
        first == {i \in hits : \A j \in hits : ~SortsBefore(store[j], store[i])}
    IN IF hits = {} THEN {0} ELSE first

\* indexOf on the levels in alphabetical order.
LevelIndexAlphabetical(level) ==
    CASE level = ADVANCED -> 0
      [] level = BASIC -> 1
      [] level = INTERMEDIATE -> 2
      [] OTHER -> -1

\* levels.indexOf(level) on [BASIC, INTERMEDIATE, ADVANCED].
LevelIndex(level) ==
    CASE level = BASIC -> 0
      [] level = INTERMEDIATE -> 1
      [] level = ADVANCED -> 2
      [] OTHER -> -1

\* The decision of isUserVerified on the row its findOne returned.
IsVerifiedOn(store, id, requiredLevel, t) ==
    IF id = 0 THEN FALSE
    ELSE IF IsKycExpired(store[id], t) THEN FALSE
    ELSE IF Truthy(requiredLevel)
    THEN LevelIndex(store[id].level) >= LevelIndex(requiredLevel)
    ELSE TRUE

IsUserVerified(u, requiredLevel) ==
    /\ \E id \in FindLatestApproved(cases, u) :
          last' = QueryOp("isUserVerified",
                          IF IsVerifiedOn(cases, id, requiredLevel, now) THEN "true" ELSE "false",
                          id, u, NULL, requiredLevel)
    /\ events' = NoEvents
    /\ UNCHANGED <<cases, sessions, now>>

\* getUserVerificationLevel without the expiry test.
VerificationLevelOnStored(store, id, t) ==
    IF id # 0 THEN store[id].level ELSE NULL

\* kyc && !this.isKycExpired(kyc) ? kyc.level : null
VerificationLevelOn(store, id, t) ==
    IF id # 0 /\ ~IsKycExpired(store[id], t) THEN store[id].level ELSE NULL

GetUserVerificationLevel(u) ==
    /\ \E id \in FindLatestApproved(cases, u) :
          last' = QueryOp("getUserVerificationLevel", VerificationLevelOn(cases, id, now),
                          id, u, NULL, NULL)
    /\ events' = NoEvents
    /\ UNCHANGED <<cases, sessions, now>>

\* repository.findOne({ where: { userId }, order: { createdAt: 'DESC' } }):
\* the user's row created last (rows are stored in creation order); 0 for null.
FindLatestCreated(store, u) ==
    LET hits == {i \in DOMAIN store : store[i].userId = u}
    IN IF hits = {} THEN 0 ELSE CHOOSE i \in hits : \A j \in hits : j <= i

\* KycController.getUserStatus: getKycByUserId, then isUserVerified, then the
\* response built from both.
GetUserStatus(u) ==
    LET id == FindLatestCreated(cases, u)
    IN /\ IF id = 0
          THEN last' = QueryOp("getUserStatus", "NotFoundException", 0, u, NULL, NULL)
          ELSE \E verifiedKyc \in FindLatestApproved(cases, u) :
                  LET isVerified == IsVerifiedOn(cases, verifiedKyc, NULL, now)
                  IN last' = [QueryOp("getUserStatus",
                                      IF isVerified THEN "true" ELSE "false",
                                      id, u, cases[id].status, cases[id].level)
                                EXCEPT !.canTransact =
                                           isVerified /\ cases[id].status = APPROVED]
       /\ events' = NoEvents
       /\ UNCHANGED <<cases, sessions, now>>

\* ------------------------------------------------------------------ guard

\* What @RequireKyc attaches to a route: nothing, or whether KYC is required
\* and, optionally, at which level.
NoRequirement == << >>

KycRequirement(required, level) == << [required |-> required, level |-> level] >>

\* A run of KycGuard.canActivate: the route's requirement, request.user.id
\* (NULL when no user is attached), what isUserVerified answered, and what the
\* guard returned or threw.
GuardRun(requirement, user) ==
    [pc |-> "none", requirement |-> requirement, user |-> user,
     isVerified |-> << >>, userLevel |-> << >>, result |-> "none", msg |-> NULL]

NoGuard == GuardRun(NoRequirement, NULL)

\* The guard with the missing-level test only: any verified user passes.
GuardDecisionIgnoresLevel(requiredLevel, userLevel) ==
    IF ~Truthy(userLevel)
    THEN [result |-> "ForbiddenException", msg |-> "KYC verification required"]
    ELSE [result |-> "true", msg |-> NULL]

\* What canActivate does once isUserVerified has answered false and
\* getUserVerificationLevel has answered userLevel.
GuardDecision(requiredLevel, userLevel) ==
    IF ~Truthy(userLevel)
    THEN [result |-> "ForbiddenException", msg |-> "KYC verification required"]
    ELSE IF Truthy(requiredLevel)
    THEN [result |-> "ForbiddenException", msg |-> "Higher KYC level required"]
    ELSE [result |-> "true", msg |-> NULL]

\* canActivate up to and including its first await, isUserVerified.
GuardCheck(requirement, user) ==
    LET run == GuardRun(requirement, user)
    IN /\ guard.pc = "none"
       /\ IF requirement = NoRequirement \/ ~requirement[1].required
          THEN guard' = [run EXCEPT !.pc = "done", !.result = "true"]
          ELSE IF ~Truthy(user)
          THEN guard' = [run EXCEPT !.pc = "done", !.result = "ForbiddenException",
                                    !.msg = "User authentication required"]
          ELSE \E id \in FindLatestApproved(cases, user) :
                  LET isVerified == IsVerifiedOn(cases, id, requirement[1].level, now)
                  IN guard' = IF isVerified
                              THEN [run EXCEPT !.pc = "done", !.result = "true",
                                               !.isVerified = << TRUE >>]
                              ELSE [run EXCEPT !.pc = "level", !.isVerified = << FALSE >>]
       /\ UNCHANGED <<cases, sessions, now, events, last, ops, inflight, base>>

\* canActivate from its second await, getUserVerificationLevel, to its end.
GuardLevel ==
    /\ guard.pc = "level"
    /\ \E id \in FindLatestApproved(cases, guard.user) :
          LET userLevel == VerificationLevelOn(cases, id, now)
              decision == GuardDecision(guard.requirement[1].level, userLevel)
          IN guard' = [guard EXCEPT !.pc = "done", !.userLevel = << userLevel >>,
                                    !.result = decision.result, !.msg = decision.msg]
    /\ UNCHANGED <<cases, sessions, now, events, last, ops, inflight, base>>

\* ------------------------------------------------------- signature verifier

WebhookSecret == "whsec"

\* Strings are sequences of characters; a parsed body stands for its JSON text
\* as one character of its own.

\* The length of a hex-encoded SHA-256 digest.
DigestLength == 64

\* The hex digest of HMAC-SHA-256 under `key` over `msg`: two digests are
\* equal exactly when key and message are.
HmacSha256Hex(key, msg) == [kind |-> "hex64", key |-> key, msg |-> msg]

\* What a caller can put in x-webhook-signature, described by the digest it
\* was derived from: the digest itself ("hex64"), the digest with one
\* character replaced ("altered"), cut short ("truncated"), with characters
\* appended ("extended"), or no header at all ("missing").
SignatureKinds == {"hex64", "altered", "truncated", "extended", "missing"}

SignatureLength(signature) ==
    CASE signature.kind \in {"hex64", "altered"} -> DigestLength
      [] signature.kind = "truncated" -> DigestLength - 1
      [] signature.kind = "extended" -> DigestLength + 1
      [] OTHER -> 0

\* timestamp ? `${timestamp}.${payload}` : payload
SignedMessage(payload, timestamp) ==
    IF timestamp # NoTimestamp THEN timestamp \o <<".">> \o payload ELSE payload

\* The try block of verifyWebhookSignature: Buffer.from(undefined) throws a
\* TypeError, timingSafeEqual on buffers of different length a RangeError.
SignatureComparison(payload, signature, timestamp) ==
    LET expectedSignature == HmacSha256Hex(WebhookSecret, SignedMessage(payload, timestamp))
    IN IF signature.kind = "missing" THEN "TypeError"
       ELSE IF SignatureLength(signature) # DigestLength THEN "RangeError"
       ELSE IF signature = expectedSignature THEN "true" ELSE "false"

\* verifyWebhookSignature with the timestamp left out of the signed message.
VerifyWebhookSignatureBodyOnly(payload, signature, timestamp) ==
    SignatureComparison(payload, signature, NoTimestamp) = "true"

\* verifyWebhookSignature whose catch block lets the callback through.
VerifyWebhookSignatureFailOpen(payload, signature, timestamp) ==
    SignatureComparison(payload, signature, timestamp) \in {"true", "TypeError", "RangeError"}

\* The catch block logs and returns false.
VerifyWebhookSignature(payload, signature, timestamp) ==
    SignatureComparison(payload, signature, timestamp) = "true"

\* --------------------------------------------------- controller: POST webhook

InvalidSignatureResponse == "{ error: 'Invalid signature' }"
SuccessResponse == "{ success: true }"

\* req.rawBody?.toString() || JSON.stringify(body): the text of the body.
RawBody(body) == << body >>

\* The fields of the body the endpoint hands to the service.
BodyData(body) ==
    [rejectionReason |-> body.rejectionReason,
     riskAssessment |-> body.riskAssessment,
     metadata |-> body.metadata,
     requiresReview |-> FALSE]

\* The endpoint with the result of the signature check ignored.
ControllerHandleWebhookUnchecked(body, signature, timestamp) ==
    ServiceHandleWebhook(Invocation("webhook", SuccessResponse, signature, timestamp),
        body.verificationId, body.status, BodyData(body))

ControllerHandleWebhook(body, signature, timestamp) ==
    IF ~VerifyWebhookSignature(RawBody(body), signature, timestamp)
    THEN /\ last' = LastOp(Invocation("webhook", SuccessResponse, signature, timestamp),
                           InvalidSignatureResponse, NULL, 0, body.verificationId,
                           NULL, body.status, BodyData(body))
         /\ events' = NoEvents
         /\ UNCHANGED <<cases, sessions, now>>
    ELSE ServiceHandleWebhook(Invocation("webhook", SuccessResponse, signature, timestamp),
             body.verificationId, body.status, BodyData(body))

\* ------------------------------------------------------------------ inputs

InitiateLevels == {NULL}
InitiateMetadata == {None}

\* What a direct caller passes as `data`: nothing, a rejection reason, a risk
\* assessment of high risk, or the requiresReview flag.
WebhookData ==
    {d \in [rejectionReason : {NULL, "r1"},
            riskAssessment : {NULL, "high"},
            metadata : {None},
            requiresReview : BOOLEAN] :
        Cardinality({f \in {"rejectionReason", "riskAssessment"} : d[f] # NULL})
            + (IF d.requiresReview THEN 1 ELSE 0) <= 1}

\* Callback bodies: every status for every session id, and the high-risk
\* assessment together with a reported approval.
WebhookBodies ==
    {b \in [verificationId : VerificationIds,
            status : KycStatus,
            rejectionReason : {NULL},
            riskAssessment : {NULL, "high"},
            metadata : {None}] : b.riskAssessment = "high" => b.status = APPROVED}

\* A signature header that is not a digest of anything, e.g. a few characters.
MalformedDigest == [kind |-> "truncated", key |-> NULL, msg |-> << >>]

\* The callbacks the endpoint is offered: correctly signed ones (with the
\* timestamp header), and for an approval, ones whose x-webhook-signature is
\* a digest under another key, the digest of the body without the timestamp,
\* no hex digest at all, or absent.
WebhookRequests ==
    {[body |-> b, timestamp |-> <<"t1">>,
      signature |-> HmacSha256Hex(WebhookSecret, SignedMessage(RawBody(b), <<"t1">>))] :
        b \in WebhookBodies}
    \cup UNION {{[body |-> b, timestamp |-> <<"t1">>, signature |-> sig] :
                    sig \in {HmacSha256Hex("other", SignedMessage(RawBody(b), <<"t1">>)),
                             HmacSha256Hex(WebhookSecret, SignedMessage(RawBody(b), NoTimestamp)),
                             MalformedDigest, UnsignedDigest}} :
                 b \in {x \in WebhookBodies : x.status = APPROVED /\ x.riskAssessment = NULL}}

ManualReviewDtos ==
    [status : KycStatus, reviewedBy : {"admin"}, reviewNotes : {"checked"}]

UpdateDtos ==
    [address : {"a1"}, metadata : {None}]

\* ------------------------------------------------------ calls in progress
\* Every handler awaits the repository twice: once to read its row and once
\* to save it.  Another call can run between the two.

\* The calls that can be in progress at once.
Workers == {"w1", "w2"}

\* A call of the service: its arguments, the provider's answer if it will
\* ask the provider, and how far it got: the row it read, whether another
\* call was between its read and its save at that time, the session the
\* provider opened for it, and what it returned or threw.
Request(op, vid, id, status, data, dto, reply) ==
    [op |-> op, pc |-> "none", vid |-> vid, id |-> id, status |-> status,
     data |-> data, dto |-> dto, reply |-> reply,
     read |-> << >>, beside |-> FALSE, session |-> 0, result |-> "none"]

NoRequest == Request("none", 0, 0, NULL, NoData, << >>, << >>)

\* The row a call finds: by verificationId for a webhook, by id for the
\* others; 0 when there is none.
Resolve(store, req) ==
    IF req.op = "handleWebhook" THEN FindByVerificationId(store, req.vid)
    ELSE IF req.id \in DOMAIN store THEN req.id
    ELSE 0

\* The test a call makes on the row it read, before it changes anything.
CheckOf(req, kyc) ==
    IF req.op = "manualReview" THEN ManualReviewCheck(kyc)
    ELSE IF req.op = "retryKyc" THEN RetryCheck(kyc)
    ELSE IF req.op = "updateKyc" THEN UpdateCheck(kyc)
    ELSE "pass"

\* The entity a call changes and saves, as if it were read again at the save.
EntityReloaded(req, store) == store[req.id]

\* The entity a call changes and saves: the object findOne gave it.
Entity(req, store) == req.read[1]

\* What a call makes of the entity between the read and the save.
Outcome(kyc, req, session, t) ==
    IF req.op = "handleWebhook" THEN WebhookApply(kyc, req.status, req.data, t)
    ELSE IF req.op = "manualReview" THEN ManualReviewApply(kyc, req.dto[1], t)
    ELSE IF req.op = "retryKyc" THEN RetryApply(kyc, session, req.reply[1].expiresAt)
    ELSE UpdateApply(kyc, req.dto[1])

\* repository.save that writes the entity into the first row.
SaveOverFirstRow(store, id, kyc) == [store EXCEPT ![1] = kyc]

\* repository.save(kyc): the row with the entity's id takes every column
\* of the entity.
Save(store, id, kyc) == [store EXCEPT ![id] = kyc]

\* The events a call emits after its save.
EventsOf(req, oldStatus, updatedKyc) ==
    IF req.op = "handleWebhook"
    THEN WebhookEvents(req.id, oldStatus, updatedKyc, req.status, req.vid)
    ELSE IF req.op = "manualReview"
    THEN <<[type |-> "kyc.manually.reviewed", kycId |-> req.id,
            userId |-> updatedKyc.userId, status |-> req.dto[1].status,
            reviewedBy |-> req.dto[1].reviewedBy]>>
    ELSE NoEvents

\* The first await of a call: findOne, and the test on the row it returned.
Load(w, req) ==
    LET id == Resolve(cases, req)
        beside == \E v \in Workers \ {w} : inflight[v].pc \in {"loaded", "called"}
    IN /\ inflight[w].pc = "none"
       /\ inflight' = [inflight EXCEPT ![w] =
            IF id = 0
            THEN [req EXCEPT !.pc = "done", !.result = "NotFoundException"]
            ELSE IF CheckOf(req, cases[id]) # "pass"
            THEN [req EXCEPT !.pc = "done", !.id = id, !.result = "BadRequestException"]
            ELSE [req EXCEPT !.pc = "loaded", !.id = id, !.read = << cases[id] >>,
                             !.beside = beside]]
       /\ base' = IF base = << >>
                  THEN << [cases |-> cases, sessions |-> sessions] >>
                  ELSE base
       /\ UNCHANGED <<cases, sessions, now, events, last, ops, guard>>

\* retryKyc awaits the provider between its read and its save.
CallProvider(w) ==
    LET req == inflight[w]
    IN /\ req.op = "retryKyc"
       /\ req.pc = "loaded"
       /\ IF ~req.reply[1].ok
          THEN /\ inflight' = [inflight EXCEPT ![w] =
                                  [req EXCEPT !.pc = "done", !.result = "HttpException"]]
               /\ UNCHANGED sessions
          ELSE /\ sessions < MaxSessions
               /\ sessions' = sessions + 1
               /\ inflight' = [inflight EXCEPT ![w] =
                                  [req EXCEPT !.pc = "called", !.session = sessions + 1]]
       /\ UNCHANGED <<cases, now, events, last, ops, base, guard>>

\* The second await of a call: the entity is changed and saved, and the
\* events are emitted.
Commit(w) ==
    LET req == inflight[w]
        updatedKyc == Outcome(Entity(req, cases), req, req.session, now)
    IN /\ \/ req.pc = "loaded" /\ req.op # "retryKyc"
          \/ req.pc = "called"
       /\ cases' = Save(cases, req.id, updatedKyc)
       /\ events' = EventsOf(req, req.read[1].status, updatedKyc)
       /\ last' = LastOp(Direct(req.op), "ok", NULL, req.id,
                         IF req.op = "retryKyc" THEN req.session
                         ELSE IF req.op = "handleWebhook" THEN req.vid
                         ELSE req.read[1].verificationId,
                         updatedKyc.userId,
                         IF req.op = "manualReview" THEN req.dto[1].status ELSE req.status,
                         req.data)
       /\ inflight' = [inflight EXCEPT ![w] = [req EXCEPT !.pc = "done", !.result = "ok"]]
       /\ UNCHANGED <<sessions, now, ops, base, guard>>

\* ------------------------------------------------------------ specification

\* No request is being answered: the engine is request-scoped and holds
\* nothing between calls.
NoOp == LastOp(Direct("none"), "none", NULL, 0, 0, NULL, NULL, NoData)

Idle == last = NoOp

\* An operation that succeeded counts against the length of the behaviour.
Succeeded(l) == l.result \in {"ok", SuccessResponse}

Counted ==
    /\ ops' = IF Succeeded(last') THEN ops + 1 ELSE ops
    /\ ops' <= MaxOps
    /\ UNCHANGED raceVars

Init ==
    /\ ops = 0
    /\ cases = << >>
    /\ sessions = 0
    /\ now = 1
    /\ events = NoEvents
    /\ last = NoOp
    /\ inflight = [w \in Workers |-> NoRequest]
    /\ base = << >>
    /\ guard = NoGuard

\* The caller receives the result and the emitter has dispatched the events.
Return ==
    /\ ~Idle
    /\ last' = NoOp
    /\ events' = NoEvents
    /\ UNCHANGED <<cases, sessions, now, ops, raceVars>>

\* The clock advances between requests.
Tick ==
    /\ Idle
    /\ now < MaxTime
    /\ ops < MaxUserOps
    /\ now' = now + 1
    /\ ops' = ops + 1
    /\ UNCHANGED <<cases, sessions, events, last, raceVars>>

DoInitiateKyc ==
    /\ Idle
    /\ \E u \in Users, level \in InitiateLevels, metadata \in InitiateMetadata :
        InitiateKyc(u, level, metadata, ProviderOutcomes({NoTime}))
    /\ Counted

DoHandleWebhook ==
    /\ Idle
    /\ \E vid \in VerificationIds, status \in KycStatus, data \in WebhookData :
        ServiceHandleWebhook(Direct("handleWebhook"), vid, status, data)
    /\ Counted

DoControllerWebhook ==
    /\ Idle
    /\ \E req \in WebhookRequests :
        ControllerHandleWebhook(req.body, req.signature, req.timestamp)
    /\ Counted

DoManualReview ==
    /\ Idle
    /\ \E id \in CaseIds, dto \in ManualReviewDtos : ManualReview(id, dto)
    /\ Counted

DoRetryKyc ==
    /\ Idle
    /\ \E id \in CaseIds : RetryKyc(id, ProviderOutcomes({NoTime}))
    /\ Counted

DoUpdateKyc ==
    /\ Idle
    /\ \E id \in CaseIds, dto \in UpdateDtos : UpdateKyc(id, dto)
    /\ Counted

Next ==
    \/ Return
    \/ DoInitiateKyc
    \/ DoHandleWebhook
    \/ DoControllerWebhook
    \/ DoManualReview
    \/ DoRetryKyc
    \/ DoUpdateKyc

Spec == Init /\ [][Next]_vars

\* ------------------------------------------- one user's cases over time
\* The same operations for a single user whose provider reports only final
\* results, followed for longer and with the clock running: attempts are
\* retried until the limit and approvals expire.

\* expires_at as the provider may supply it: absent, or a time on the clock.
Expiries == {NoTime} \cup (1..(MaxTime - 1))

UserCounted ==
    /\ ops' = IF Succeeded(last') THEN ops + 1 ELSE ops
    /\ ops' <= MaxUserOps
    /\ UNCHANGED raceVars

UserInitiateKyc ==
    /\ Idle
    /\ InitiateKyc("u1", NULL, None, ProviderOutcomes(Expiries))
    /\ UserCounted

UserHandleWebhook ==
    /\ Idle
    /\ \E vid \in VerificationIds, status \in {APPROVED, REJECTED} :
        ServiceHandleWebhook(Direct("handleWebhook"), vid, status,
            [rejectionReason |-> IF status = REJECTED THEN "r1" ELSE NULL,
             riskAssessment |-> NULL, metadata |-> None, requiresReview |-> FALSE])
    /\ UserCounted

UserRetryKyc ==
    /\ Idle
    /\ \E id \in CaseIds : RetryKyc(id, ProviderOutcomes(Expiries))
    /\ UserCounted

NextOneUser ==
    \/ Return
    \/ Tick
    \/ UserInitiateKyc
    \/ UserHandleWebhook
    \/ UserRetryKyc

SpecOneUser == Init /\ [][NextOneUser]_vars

\* ------------------------------------------- what a user is verified for
\* One user's cases, opened at any level and approved by the provider, with
\* the clock running, and the read-only operations asked between requests.

QueryCounted ==
    /\ ops' = IF Succeeded(last') THEN ops + 1 ELSE ops
    /\ ops' <= MaxQueryOps
    /\ UNCHANGED raceVars

LevelInitiateKyc ==
    /\ Idle
    /\ \E level \in KycLevel : InitiateKyc("u1", level, None, ProviderOutcomes(Expiries))
    /\ QueryCounted

ApprovingWebhook ==
    /\ Idle
    /\ \E vid \in VerificationIds :
          ServiceHandleWebhook(Direct("handleWebhook"), vid, APPROVED, NoData)
    /\ QueryCounted

\* requiredLevel as a caller may pass it: omitted, or a level.
RequiredLevels == {NULL} \cup KycLevel

UserIsVerified ==
    /\ Idle
    /\ \E requiredLevel \in RequiredLevels : IsUserVerified("u1", requiredLevel)
    /\ UNCHANGED <<ops, raceVars>>

UserGetVerificationLevel ==
    /\ Idle
    /\ GetUserVerificationLevel("u1")
    /\ UNCHANGED <<ops, raceVars>>

UserGetKycById ==
    /\ Idle
    /\ \E id \in CaseIds : GetKycById(id)
    /\ UNCHANGED <<ops, raceVars>>

UserGetUserStatus ==
    /\ Idle
    /\ GetUserStatus("u1")
    /\ UNCHANGED <<ops, raceVars>>

NextQueries ==
    \/ Return
    \/ Tick
    \/ LevelInitiateKyc
    \/ ApprovingWebhook
    \/ UserIsVerified
    \/ UserGetVerificationLevel
    \/ UserGetKycById
    \/ UserGetUserStatus

SpecQueries == Init /\ [][NextQueries]_vars

\* ------------------------------------------------- a case's metadata bag
\* One user's cases opened with or without metadata, and the two operations
\* that accept metadata for a stored case.

MetaCounted ==
    /\ ops' = IF Succeeded(last') THEN ops + 1 ELSE ops
    /\ ops' <= MaxMetaOps
    /\ UNCHANGED raceVars

SuppliedMetadata == {Some(m) : m \in MetaObjects}

MetaInitiateKyc ==
    /\ Idle
    /\ \E metadata \in {None} \cup SuppliedMetadata :
          InitiateKyc("u1", NULL, metadata, ProviderOutcomes({NoTime}))
    /\ MetaCounted

MetaHandleWebhook ==
    /\ Idle
    /\ \E vid \in VerificationIds, metadata \in SuppliedMetadata :
          ServiceHandleWebhook(Direct("handleWebhook"), vid, IN_PROGRESS,
                               [NoData EXCEPT !.metadata = metadata])
    /\ MetaCounted

MetaUpdateKyc ==
    /\ Idle
    /\ \E id \in CaseIds, metadata \in SuppliedMetadata :
          UpdateKyc(id, [address |-> NULL, metadata |-> metadata])
    /\ MetaCounted

NextMetadata ==
    \/ Return
    \/ MetaInitiateKyc
    \/ MetaHandleWebhook
    \/ MetaUpdateKyc

SpecMetadata == Init /\ [][NextMetadata]_vars

\* ------------------------------------------------- a route behind the guard
\* One user's cases, opened at any level and approved by the provider, with
\* the clock running, and requests to guarded routes: the guard's two
\* queries are separate awaits, and a request or a tick can fall between.

GuardCounted ==
    /\ ops' = IF Succeeded(last') THEN ops + 1 ELSE ops
    /\ ops' <= MaxGuardOps
    /\ UNCHANGED raceVars

GuardedInitiateKyc ==
    /\ Idle
    /\ guard.pc # "done"
    /\ \E level \in KycLevel : InitiateKyc("u1", level, None, ProviderOutcomes(Expiries))
    /\ GuardCounted

GuardedApprovingWebhook ==
    /\ Idle
    /\ guard.pc # "done"
    /\ \E vid \in VerificationIds :
          ServiceHandleWebhook(Direct("handleWebhook"), vid, APPROVED, NoData)
    /\ GuardCounted

\* The routes: undecorated, @RequireKyc(false), @RequireKyc(true) and
\* @RequireKyc(true, level).
RouteRequirements ==
    {NoRequirement, KycRequirement(FALSE, NULL)}
    \cup {KycRequirement(TRUE, level) : level \in RequiredLevels}

\* request.user.id: absent, or the user's.
RequestUsers == {NULL, "u1"}

DoGuardCheck ==
    /\ Idle
    /\ \E requirement \in RouteRequirements, user \in RequestUsers :
          GuardCheck(requirement, user)

DoGuardLevel ==
    /\ Idle
    /\ GuardLevel

\* The request went on to the route, or was answered 403.
GuardReturn ==
    /\ guard.pc = "done"
    /\ guard' = NoGuard
    /\ UNCHANGED <<cases, sessions, now, events, last, ops, inflight, base>>

NextGuard ==
    \/ Return
    \/ Tick
    \/ GuardedInitiateKyc
    \/ GuardedApprovingWebhook
    \/ DoGuardCheck
    \/ DoGuardLevel
    \/ GuardReturn

SpecGuard == Init /\ [][NextGuard]_vars

\* --------------------------------------------- two calls at the same time
\* A few cases are opened, rejected or escalated by calls that run alone;
\* then two calls run at once, each awaiting its read, the provider and its
\* save in any order with the other's.

RaceCounted ==
    /\ ops' = IF Succeeded(last') THEN ops + 1 ELSE ops
    /\ ops' <= MaxRaceOps
    /\ UNCHANGED raceVars

\* No call has started to run beside another.
Quiet == base = << >>

RaceInitiateKyc ==
    /\ Idle
    /\ Quiet
    /\ \E u \in Users : InitiateKyc(u, NULL, None, ProviderOutcomes({NoTime}))
    /\ RaceCounted

RaceHandleWebhook ==
    /\ Idle
    /\ Quiet
    /\ \E vid \in VerificationIds, requiresReview \in BOOLEAN :
          ServiceHandleWebhook(Direct("handleWebhook"), vid, REJECTED,
                               [NoData EXCEPT !.requiresReview = requiresReview])
    /\ RaceCounted

\* What the two calls are: a webhook with a status and metadata, a
\* reviewer's approval, a retry with the provider's answer, an update.
RaceWebhooks ==
    {<<REJECTED, Some([k \in {"k1"} |-> "a"])>>,
     <<IN_PROGRESS, Some([k \in {"k1", "k2"} |-> "b"])>>}

RaceRequests ==
    {Request("handleWebhook", vid, 0, sd[1], [NoData EXCEPT !.metadata = sd[2]],
             << >>, << >>) : vid \in VerificationIds, sd \in RaceWebhooks}
    \cup {Request("manualReview", 0, id, NULL, NoData, << dto >>, << >>) :
            id \in CaseIds, dto \in {d \in ManualReviewDtos : d.status = APPROVED}}
    \cup {Request("retryKyc", 0, id, NULL, NoData, << >>, << resp >>) :
            id \in CaseIds, resp \in ProviderOutcomes({NoTime})}
    \cup {Request("updateKyc", 0, id, NULL, NoData, << dto >>, << >>) :
            id \in CaseIds, dto \in UpdateDtos}

WorkerLoad ==
    /\ Idle
    /\ \E w \in Workers, req \in RaceRequests : Load(w, req)

WorkerCallProvider == \E w \in Workers : CallProvider(w)

WorkerCommit == \E w \in Workers : Commit(w)

NextConcurrent ==
    \/ Return
    \/ RaceInitiateKyc
    \/ RaceHandleWebhook
    \/ WorkerLoad
    \/ WorkerCallProvider
    \/ WorkerCommit

SpecConcurrent == Init /\ [][NextConcurrent]_vars

\* ------------------------------------------------- the signature verifier
\* verifyWebhookSignature is a function of its three arguments and the
\* configured secret: each behaviour is one call, on arguments drawn at the
\* start.  A call in flight is held in `last`; the store stays empty.

Chars == {"a", "."}

Strings == UNION {[1..n -> Chars] : n \in 0..MaxLen}

\* The keys a signature may have been made with: the configured one, another.
SigningKeys == {WebhookSecret, "other"}

\* The signature headers offered: for every key and every message that can be
\* signed, the digest and its damaged forms; and no header.
ClaimedSignatures ==
    {[kind |-> k, key |-> key, msg |-> SignedMessage(p, t)] :
        k \in SignatureKinds \ {"missing"}, key \in SigningKeys, p \in Strings, t \in Strings}
    \cup {UnsignedDigest}

VerifierCall(payload, signature, timestamp) ==
    [op |-> "verifyWebhookSignature", result |-> "pending",
     payload |-> payload, signature |-> signature, timestamp |-> timestamp]

InitVerifier ==
    /\ ops = 0
    /\ cases = << >>
    /\ sessions = 0
    /\ now = 1
    /\ events = NoEvents
    /\ inflight = [w \in Workers |-> NoRequest]
    /\ base = << >>
    /\ guard = NoGuard
    /\ last \in {VerifierCall(p, sig, t) :
                    p \in Strings, sig \in ClaimedSignatures, t \in Strings}

DoVerifyWebhookSignature ==
    /\ last.result = "pending"
    /\ last' = [last EXCEPT !.result =
                    IF VerifyWebhookSignature(last.payload, last.signature, last.timestamp)
                    THEN "true" ELSE "false"]
    /\ UNCHANGED <<cases, sessions, now, events, ops, raceVars>>

NextVerifier == DoVerifyWebhookSignature

SpecVerifier == InitVerifier /\ [][NextVerifier]_vars

\* ================================================================== claims

WebhookOps == {"handleWebhook", "webhook"}

\* Every payload a webhook can carry, over the model's value domains.
AllWebhookData ==
    [rejectionReason : {NULL, "", "r1"},
     riskAssessment : {NULL} \cup RiskLevels,
     metadata : {None} \cup {Some(m) : m \in MetaObjects},
     requiresReview : BOOLEAN]

EscalatingData(data) == data.riskAssessment = "high" \/ data.requiresReview

\* C1: a webhook whose payload has riskLevel high or carries requiresReview
\* leaves the stored case in requires_review with isManualReview set, whatever
\* status it reports (approved included) and whatever the case held before:
\* for the webhook just applied, and for every payload on every stored case.
C1_EscalationPrecedence ==
    /\ (last.op \in WebhookOps /\ Succeeded(last) /\ EscalatingData(last.data))
          => /\ cases[last.id].status = REQUIRES_REVIEW
             /\ cases[last.id].isManualReview
    /\ Idle => \A i \in DOMAIN cases, status \in KycStatus, data \in AllWebhookData :
          EscalatingData(data) =>
              LET k == WebhookApply(cases[i], status, data, now)
              IN k.status = REQUIRES_REVIEW /\ k.isManualReview

C1_Witness ==
    /\ last.op \in WebhookOps
    /\ Succeeded(last)
    /\ last.status = APPROVED
    /\ last.data.riskAssessment = "high"
    /\ cases[last.id].status = REQUIRES_REVIEW

\* C2: applying the same webhook a second time, now or later, yields the
\* stored record of the first application, completedAt included.
C2_WebhookIdempotent ==
    \A i \in DOMAIN cases, status \in KycStatus, data \in AllWebhookData, t \in now..MaxTime :
        LET once == WebhookApply(cases[i], status, data, now)
        IN WebhookApply(once, status, data, t) = once

\* C3: attemptCount of every stored case is in 1..3, and a retry of a case
\* whose attemptCount is already 3 throws BadRequestException ("Maximum retry
\* attempts reached" when its status would allow a retry) and changes no case.
C3_AttemptsBounded ==
    /\ [](\A i \in DOMAIN cases : cases[i].attemptCount \in 1..MaxAttempts)
    /\ [][(last'.op = "retryKyc" /\ last'.id \in DOMAIN cases
             /\ cases[last'.id].attemptCount >= MaxAttempts)
          => /\ last'.result = "BadRequestException"
             /\ cases[last'.id].status \in {REJECTED, EXPIRED}
                   => last'.msg = "Maximum retry attempts reached"
             /\ cases' = cases
             /\ sessions' = sessions]_vars

C3_Witness ==
    /\ last.op = "retryKyc"
    /\ last.result = "BadRequestException"
    /\ last.msg = "Maximum retry attempts reached"
    /\ cases[last.id].attemptCount = MaxAttempts

\* A case as initiateKyc stored it, with nothing applied to it since.
AsInitiated(kyc) ==
    /\ kyc.status = PENDING
    /\ kyc.attemptCount = 1
    /\ kyc.completedAt = NoTime
    /\ ~kyc.isManualReview
    /\ kyc.riskAssessment = NULL
    /\ kyc.rejectionReason = NULL
    /\ kyc.reviewedBy = NULL

\* C4: an initiate for a user who has a case still as initiated (pending, no
\* webhook applied) throws ConflictException and stores no second case.
C4_SecondInitiateConflicts ==
    [][(last'.op = "initiateKyc"
          /\ \E i \in DOMAIN cases : cases[i].userId = last'.user /\ AsInitiated(cases[i]))
       => (last'.result = "ConflictException" /\ cases' = cases)]_vars

\* C5: no user has two cases in in_progress.
C5_OneInProgressPerUser ==
    \A u \in Users :
        Cardinality({i \in DOMAIN cases :
                        cases[i].userId = u /\ cases[i].status = IN_PROGRESS}) <= 1

\* The user has a case in progress, or an approved case that is not expired.
BlocksInitiate(store, u, t) ==
    \E i \in DOMAIN store :
        /\ store[i].userId = u
        /\ \/ store[i].status = IN_PROGRESS
           \/ store[i].status = APPROVED /\ ~(store[i].expiresAt # NoTime /\ t > store[i].expiresAt)

\* C6: an initiate for a user with a case in progress or an unexpired approved
\* case throws ConflictException, opens no provider session, stores nothing
\* and emits nothing, whatever other cases the user has.
C6_InitiateConflict ==
    [][(last'.op = "initiateKyc" /\ BlocksInitiate(cases, last'.user, now))
       => /\ last'.result = "ConflictException"
          /\ cases' = cases
          /\ sessions' = sessions
          /\ events' = NoEvents]_vars

\* C7: completedAt is set exactly on the cases that are approved, rejected or
\* closed by a manual review.  A case never reviewed is not closed by review,
\* so a violation of this formula is a violation of the claim.
C7_CompletedIffTerminal ==
    \A i \in DOMAIN cases :
        /\ cases[i].completedAt # NoTime
              => (cases[i].status \in {APPROVED, REJECTED} \/ cases[i].reviewedBy # NULL)
        /\ cases[i].status \in {APPROVED, REJECTED} => cases[i].completedAt # NoTime

\* C8: no webhook changes the stored status of a case that is approved or
\* rejected.
C8_TerminalUnderWebhook ==
    [][last'.op \in WebhookOps
       => \A i \in DOMAIN cases :
              cases[i].status \in {APPROVED, REJECTED} => cases'[i].status = cases[i].status]_vars

\* C9 as stated: no webhook leaves the case it was applied to in expired.
C9_WebhookNeverExpires ==
    (last.op \in WebhookOps /\ Succeeded(last)) => cases[last.id].status # EXPIRED

\* C9 as amended: a webhook leaves the case it was applied to in expired
\* exactly when expired is the status it reports and its payload does not
\* escalate; a webhook reporting any other status never stores expired.
C9_ExpiredOnlyAsReported ==
    (last.op \in WebhookOps /\ Succeeded(last))
        => (cases[last.id].status = EXPIRED
               <=> (last.status = EXPIRED /\ ~EscalatingData(last.data)))

C9_Witness ==
    /\ last.op \in WebhookOps
    /\ Succeeded(last)
    /\ last.status = EXPIRED
    /\ cases[last.id].status = EXPIRED

\* The callback body the endpoint received.
BodyOf(l) ==
    [verificationId |-> l.vid, status |-> l.status,
     rejectionReason |-> l.data.rejectionReason,
     riskAssessment |-> l.data.riskAssessment,
     metadata |-> l.data.metadata]

\* The request carries the provider's digest of its own body and timestamp.
GenuinelySigned(l) ==
    l.signature = HmacSha256Hex(WebhookSecret, SignedMessage(RawBody(BodyOf(l)), l.timestamp))

\* C10: a callback whose signature is not the provider's, or is missing, is
\* answered with the invalid-signature response whether or not its
\* verification id is stored, changes no case and emits no event; that
\* response differs from the one of an applied webhook and is only given
\* when nothing was applied.
C10_InvalidSignatureInert ==
    /\ InvalidSignatureResponse # SuccessResponse
    /\ [][last'.op = "webhook"
          => /\ ~GenuinelySigned(last')
                  => (last'.result = InvalidSignatureResponse
                        /\ cases' = cases /\ events' = NoEvents)
             /\ last'.result = InvalidSignatureResponse
                  => (cases' = cases /\ events' = NoEvents)
             /\ cases' # cases => last'.result = SuccessResponse]_vars

C10_Witness ==
    /\ last.op = "webhook"
    /\ ~GenuinelySigned(last)
    /\ last.result = InvalidSignatureResponse
    /\ FindByVerificationId(cases, last.vid) # 0

\* The digest the provider computes for a body and timestamp header.
ProviderDigest(payload, timestamp) ==
    HmacSha256Hex(WebhookSecret,
        IF timestamp = << >> THEN payload ELSE timestamp \o <<".">> \o payload)

\* C11: the verifier returns true exactly when the claimed signature is the
\* HMAC-SHA-256 digest, under the configured secret, of timestamp + "." +
\* body (of body alone without a timestamp); and for an accepted call, any
\* other body, any other timestamp and any other signature is not accepted.
C11_VerifierAcceptsExactlyDigest ==
    last.result # "pending" =>
        /\ last.result = "true"
               <=> last.signature = ProviderDigest(last.payload, last.timestamp)
        /\ last.result = "true" =>
               /\ \A p \in Strings \ {last.payload} :
                      ~VerifyWebhookSignature(p, last.signature, last.timestamp)
               /\ \A t \in Strings \ {last.timestamp} :
                      ~VerifyWebhookSignature(last.payload, last.signature, t)
               /\ \A sig \in ClaimedSignatures \ {last.signature} :
                      ~VerifyWebhookSignature(last.payload, sig, last.timestamp)

C11_Witness ==
    /\ last.result = "true"
    /\ last.timestamp # NoTimestamp
    /\ last.payload # << >>
    /\ last.signature = ProviderDigest(last.payload, last.timestamp)

\* C12: for a claimed signature that is not a well-formed digest (one
\* character replaced, too short, too long) or that is absent, the verifier
\* returns false, even when it was derived from the right digest.
C12_MalformedSignatureIsFalse ==
    (last.result # "pending" /\ last.signature.kind # "hex64") => last.result = "false"

C12_Witness ==
    /\ last.result = "false"
    /\ last.signature.kind = "truncated"
    /\ last.signature.key = WebhookSecret
    /\ last.signature.msg = SignedMessage(last.payload, last.timestamp)

\* C13: a manual review of a case whose isManualReview flag is false throws
\* BadRequestException, changes no case and emits no event; on a case whose
\* flag is true it succeeds and clears the flag; and the flag of a case is
\* only ever raised by a webhook on that case whose payload escalates, so a
\* second review with no such webhook in between fails.
C13_ManualReviewNeedsFlag ==
    /\ [][(last'.op = "manualReview" /\ last'.id \in DOMAIN cases)
          => IF cases[last'.id].isManualReview
             THEN /\ last'.result = "ok"
                  /\ ~cases'[last'.id].isManualReview
             ELSE /\ last'.result = "BadRequestException"
                  /\ cases' = cases
                  /\ events' = NoEvents]_vars
    /\ [][\A i \in DOMAIN cases :
             (~cases[i].isManualReview /\ cases'[i].isManualReview)
                => (last'.op \in WebhookOps /\ last'.id = i /\ EscalatingData(last'.data))]_vars
    /\ [](\A i \in DOMAIN cases :
             (Len(cases) = i /\ last.op = "initiateKyc" /\ last.id = i)
                => ~cases[i].isManualReview)

C13_Witness ==
    /\ last.op = "manualReview"
    /\ last.result = "BadRequestException"
    /\ cases[last.id].reviewedBy # NULL
    /\ ~cases[last.id].isManualReview

\* C14: a retry of a case whose stored status is neither rejected nor expired
\* throws BadRequestException, opens no provider session and changes no case.
C14_RetryNeedsFailedCase ==
    [][(last'.op = "retryKyc" /\ last'.id \in DOMAIN cases
          /\ cases[last'.id].status \notin {REJECTED, EXPIRED})
       => /\ last'.result = "BadRequestException"
          /\ last'.msg = "Can only retry rejected or expired KYC"
          /\ cases' = cases
          /\ sessions' = sessions
          /\ events' = NoEvents]_vars

C14_Witness ==
    /\ last.op = "retryKyc"
    /\ last.result = "BadRequestException"
    /\ cases[last.id].status = REQUIRES_REVIEW

\* C15: a retry of a rejected or expired case with fewer than three attempts
\* either fails at the provider or succeeds; when it succeeds the case is
\* stored pending, with attemptCount one higher, the id and url of the
\* session just opened, and completedAt and rejectionReason cleared.
C15_RetryReopensCase ==
    [][(last'.op = "retryKyc" /\ last'.id \in DOMAIN cases)
       => /\ (cases[last'.id].status \in {REJECTED, EXPIRED}
                 /\ cases[last'.id].attemptCount < MaxAttempts)
                => last'.result \in {"ok", "HttpException"}
          /\ last'.result = "ok"
                => /\ cases[last'.id].status \in {REJECTED, EXPIRED}
                   /\ cases'[last'.id].status = PENDING
                   /\ cases'[last'.id].attemptCount = cases[last'.id].attemptCount + 1
                   /\ sessions' = sessions + 1
                   /\ cases'[last'.id].verificationId = sessions'
                   /\ cases'[last'.id].verificationId # cases[last'.id].verificationId
                   /\ cases'[last'.id].verificationUrl = VerificationUrl(sessions')
                   /\ cases'[last'.id].completedAt = NoTime
                   /\ cases'[last'.id].rejectionReason = NULL]_vars

C15_Witness ==
    /\ last.op = "retryKyc"
    /\ last.result = "ok"
    /\ cases[last.id].attemptCount = MaxAttempts
    /\ cases[last.id].status = PENDING
    /\ cases[last.id].completedAt = NoTime

\* The user's approved cases, and those of them completed last.
ApprovedCasesOf(u) ==
    {i \in DOMAIN cases : cases[i].userId = u /\ cases[i].status = APPROVED}

MostRecentlyCompleted(u) ==
    {i \in ApprovedCasesOf(u) :
        \A j \in ApprovedCasesOf(u) : cases[j].completedAt <= cases[i].completedAt}

\* expiresAt is set and in the past.
PastExpiry(kyc) == kyc.expiresAt # NoTime /\ kyc.expiresAt < now

\* The order Basic < Intermediate < Advanced: level l is at least level r.
LevelAtLeast(l, r) ==
    <<l, r>> \in {<<BASIC, BASIC>>, <<INTERMEDIATE, BASIC>>, <<INTERMEDIATE, INTERMEDIATE>>,
                  <<ADVANCED, BASIC>>, <<ADVANCED, INTERMEDIATE>>, <<ADVANCED, ADVANCED>>}

\* C16: isUserVerified answers false for a user with no approved case;
\* otherwise it looks at an approved case of the user completed last and
\* answers false if that case's expiresAt is set and in the past, false if a
\* required level is given and the case's level is lower, true otherwise (so
\* true for a case without expiresAt that meets the level).
C16_IsVerifiedDecision ==
    last.op = "isUserVerified" =>
        IF ApprovedCasesOf(last.user) = {}
        THEN last.id = 0 /\ last.result = "false"
        ELSE /\ last.id \in MostRecentlyCompleted(last.user)
             /\ last.result \in {"true", "false"}
             /\ last.result = "true"
                   <=> /\ ~PastExpiry(cases[last.id])
                       /\ last.level # NULL => LevelAtLeast(cases[last.id].level, last.level)

C16_Witness ==
    /\ last.op = "isUserVerified"
    /\ last.result = "true"
    /\ cases[last.id].expiresAt = NoTime
    /\ \E j \in ApprovedCasesOf(last.user) :
          /\ cases[j].completedAt < cases[last.id].completedAt
          /\ PastExpiry(cases[j])

\* C17: when isUserVerified looks at an approved, unexpired case of level L
\* and a required level R is given, it answers true exactly when L >= R in
\* the order Basic < Intermediate < Advanced.
C17_LevelOrder ==
    (last.op = "isUserVerified" /\ last.id # 0 /\ last.level # NULL
        /\ ~PastExpiry(cases[last.id]))
    => (last.result = "true" <=> LevelAtLeast(cases[last.id].level, last.level))

C17_Witness ==
    /\ last.op = "isUserVerified"
    /\ last.id # 0
    /\ ~PastExpiry(cases[last.id])
    /\ cases[last.id].level = BASIC
    /\ last.level = INTERMEDIATE
    /\ last.result = "false"

ReadOnlyOps == {"isUserVerified", "getUserVerificationLevel", "getKycById", "getUserStatus"}

\* C18: the clock advancing changes no stored case, and isUserVerified,
\* getUserVerificationLevel and getKycById change no case, open no session
\* and emit nothing; getKycById reports the stored status; and when the case
\* looked at has an expiresAt in the past, isUserVerified answers false and
\* getUserVerificationLevel answers null.
C18_LazyExpiration ==
    [][/\ now' # now => (cases' = cases /\ events' = events)
       /\ last'.op \in ReadOnlyOps
             => (cases' = cases /\ sessions' = sessions /\ events' = NoEvents)
       /\ (last'.op = "getKycById" /\ last'.id \in DOMAIN cases)
             => (last'.result = "row" /\ last'.status = cases[last'.id].status)
       /\ (last'.op = "isUserVerified" /\ last'.id # 0 /\ PastExpiry(cases[last'.id]))
             => last'.result = "false"
       /\ (last'.op = "getUserVerificationLevel" /\ last'.id # 0
              /\ PastExpiry(cases[last'.id]))
             => last'.result = NULL]_vars

C18_Witness ==
    /\ last.op = "getUserVerificationLevel"
    /\ last.result = NULL
    /\ last.id # 0
    /\ cases[last.id].status = APPROVED
    /\ PastExpiry(cases[last.id])

\* Every patch an update can carry, over the model's value domains.
AllUpdateDtos ==
    [address : {NULL, "a1"}, metadata : {None} \cup {Some(m) : m \in MetaObjects}]

PatchedFields == {"address", "metadata"}

\* C19: an update of an approved case throws BadRequestException and changes
\* no case; an update of a case in any other status succeeds, leaves every
\* other case alone and changes no field of the case but the patched ones
\* (so not status, attemptCount, isManualReview or completedAt), for the
\* update just made and for every patch on every stored case.
C19_UpdateOnlyPatches ==
    /\ [][(last'.op = "updateKyc" /\ last'.id \in DOMAIN cases)
          => IF cases[last'.id].status = APPROVED
             THEN /\ last'.result = "BadRequestException"
                  /\ cases' = cases
                  /\ events' = NoEvents
             ELSE /\ last'.result = "ok"
                  /\ DOMAIN cases' = DOMAIN cases
                  /\ \A j \in DOMAIN cases : j # last'.id => cases'[j] = cases[j]
                  /\ \A f \in (DOMAIN cases[last'.id]) \ PatchedFields :
                        cases'[last'.id][f] = cases[last'.id][f]]_vars
    /\ [](Idle => \A i \in DOMAIN cases, dto \in AllUpdateDtos :
             LET k == UpdateApply(cases[i], dto)
             IN /\ \A f \in (DOMAIN cases[i]) \ PatchedFields : k[f] = cases[i][f]
                /\ dto.address # NULL => k.address = dto.address
                /\ dto.metadata # None => k.metadata = dto.metadata)

C19_Witness ==
    /\ last.op = "updateKyc"
    /\ last.result = "BadRequestException"
    /\ cases[last.id].status = APPROVED

EmittedTypes == {events[n].type : n \in DOMAIN events}

\* C20: a webhook emits kyc.approved exactly when the status it leaves stored
\* is approved, and kyc.rejected exactly when the status it leaves stored is
\* rejected; a webhook escalated to requires_review emits neither.
C20_EventsFollowStoredStatus ==
    (last.op \in WebhookOps /\ Succeeded(last))
    => /\ "kyc.approved" \in EmittedTypes <=> cases[last.id].status = APPROVED
       /\ "kyc.rejected" \in EmittedTypes <=> cases[last.id].status = REJECTED

\* The events of one type among those emitted.
EventsOfType(evs, type) == {n \in DOMAIN evs : evs[n].type = type}

\* C21: every successful webhook emits exactly one kyc.status.changed event,
\* also when the reported status is the stored one, for the case applied to
\* and with oldStatus the status stored before; a webhook reporting approved
\* on a pending case without escalation stores approved with completedAt
\* set and emits kyc.status.changed and kyc.approved once each.
C21_StatusChangedAlways ==
    [][(last'.op \in WebhookOps /\ Succeeded(last'))
       => /\ Cardinality(EventsOfType(events', "kyc.status.changed")) = 1
          /\ \A n \in EventsOfType(events', "kyc.status.changed") :
                /\ events'[n].kycId = last'.id
                /\ events'[n].oldStatus = cases[last'.id].status
          /\ (last'.status = APPROVED /\ cases[last'.id].status = PENDING
                 /\ ~EscalatingData(last'.data))
                => /\ cases'[last'.id].status = APPROVED
                   /\ cases'[last'.id].completedAt = now
                   /\ cases'[last'.id].completedAt # NoTime
                   /\ Cardinality(EventsOfType(events', "kyc.approved")) = 1
                   /\ Len(events') = 2]_vars

C21_Witness ==
    /\ last.op \in WebhookOps
    /\ Succeeded(last)
    /\ Len(events) = 1
    /\ events[1].type = "kyc.status.changed"
    /\ events[1].oldStatus = last.status
    /\ cases[last.id].status = last.status

\* C22: a successful initiate appends exactly one case, for the user, pending,
\* with attemptCount 1, the flag false, no completedAt, the id and url of the
\* session the provider opened and the expiresAt the provider supplied, and
\* emits exactly one kyc.initiated event with that case's id, user and
\* verificationId.
C22_InitiateStoresPendingCase ==
    [][(last'.op = "initiateKyc" /\ last'.result = "ok")
       => /\ Len(cases') = Len(cases) + 1
          /\ SubSeq(cases', 1, Len(cases)) = cases
          /\ last'.id = Len(cases')
          /\ sessions' = sessions + 1
          /\ Len(last'.provider) = 1
          /\ LET kyc == cases'[Len(cases')]
             IN /\ kyc.userId = last'.user
                /\ kyc.status = PENDING
                /\ kyc.attemptCount = 1
                /\ ~kyc.isManualReview
                /\ kyc.completedAt = NoTime
                /\ kyc.verificationId = sessions'
                /\ kyc.verificationUrl = VerificationUrl(sessions')
                /\ kyc.expiresAt = last'.provider[1].expiresAt
                /\ events' = <<[type |-> "kyc.initiated", kycId |-> last'.id,
                                userId |-> last'.user,
                                verificationId |-> kyc.verificationId]>>]_vars

C22_Witness ==
    /\ last.op = "initiateKyc"
    /\ last.result = "ok"
    /\ cases[last.id].expiresAt # NoTime
    /\ cases[last.id].expiresAt = last.provider[1].expiresAt
    /\ Len(events) = 1

\* C23: when the provider does not open a session during an initiate, the
\* gateway's HttpException reaches the caller with its message, no case is
\* stored or changed and no event is emitted.
C23_ProviderFailureStoresNothing ==
    [][(last'.op = "initiateKyc" /\ last'.provider # << >>
          /\ last'.provider[1].reply # "session")
       => /\ last'.result = "HttpException"
          /\ last'.msg = last'.provider[1].error
          /\ cases' = cases
          /\ sessions' = sessions
          /\ events' = NoEvents]_vars

C23_Witness ==
    /\ last.op = "initiateKyc"
    /\ last.result = "HttpException"
    /\ last.provider # << >>
    /\ last.provider[1].reply = "rejected"
    /\ cases # << >>

\* C27: a webhook (handed to the service directly, or by the endpoint after
\* its signature was accepted) whose verification id is the verificationId of
\* no stored case throws NotFoundException, changes no case and emits no
\* event.
C27_UnknownSessionNotFound ==
    [][(last'.op \in WebhookOps
          /\ last'.result # InvalidSignatureResponse
          /\ \A i \in DOMAIN cases : cases[i].verificationId # last'.vid)
       => /\ last'.result = "NotFoundException"
          /\ cases' = cases
          /\ events' = NoEvents]_vars

C27_Witness ==
    /\ last.op = "handleWebhook"
    /\ last.result = "NotFoundException"
    /\ cases # << >>
    /\ \A i \in DOMAIN cases : cases[i].verificationId # last.vid

\* C30: an initiate or retry calls the provider at most once; a call that
\* got no response fails with service-unavailable, and a call the provider
\* answered with an error response fails with bad-gateway.
C30_GatewayErrorStatuses ==
    last.op \in {"initiateKyc", "retryKyc"}
    => /\ Len(last.provider) <= 1
       /\ \A n \in DOMAIN last.provider :
             /\ last.provider[n].reply = "unreachable"
                   => last.provider[n].status = SERVICE_UNAVAILABLE
             /\ last.provider[n].reply = "rejected"
                   => last.provider[n].status = BAD_GATEWAY

\* C26: the status query of a user reports canTransact exactly when it
\* reports the user verified and the status approved; and whenever it
\* reports the user verified, the status it reports is approved and
\* canTransact is true.
C26_VerifiedCanTransact ==
    (last.op = "getUserStatus" /\ last.result # "NotFoundException")
    => /\ last.canTransact <=> (last.result = "true" /\ last.status = APPROVED)
       /\ last.result = "true" => (last.status = APPROVED /\ last.canTransact)

\* The keys and values of a stored or supplied metadata bag.
Bag(metadata) == IF metadata = None THEN << >> ELSE metadata[1]

\* C24: when an update or a webhook supplies metadata, the case afterwards
\* has every key it had before and the request does not mention, with its
\* old value, and every key of the request with the request's value.
C24_MetadataMerged ==
    [][(last'.op \in (WebhookOps \cup {"updateKyc"}) /\ Succeeded(last')
          /\ last'.data.metadata # None)
       => LET old == Bag(cases[last'.id].metadata)
              req == Bag(last'.data.metadata)
              new == Bag(cases'[last'.id].metadata)
          IN /\ \A k \in (DOMAIN old) \ (DOMAIN req) :
                   k \in DOMAIN new /\ new[k] = old[k]
             /\ \A k \in DOMAIN req : k \in DOMAIN new /\ new[k] = req[k]]_vars

\* C25 as stated: no operation changes the verificationId of a stored case.
C25_VerificationIdImmutable ==
    [][\A i \in DOMAIN cases : cases'[i].verificationId = cases[i].verificationId]_vars

\* C25 as amended: the verificationId of a stored case changes only in a
\* successful retry of that case, which replaces it by the id of the session
\* just opened; webhook, manual review and update never change it.
C25_VerificationIdChangedOnlyByRetry ==
    [][/\ \A i \in DOMAIN cases :
             cases'[i].verificationId # cases[i].verificationId
                => /\ last'.op = "retryKyc"
                   /\ last'.result = "ok"
                   /\ last'.id = i
                   /\ cases'[i].verificationId = sessions'
                   /\ sessions' = sessions + 1
       /\ (last'.op = "retryKyc" /\ last'.result = "ok")
             => cases'[last'.id].verificationId # cases[last'.id].verificationId]_vars

C25_Witness ==
    /\ last.op = "retryKyc"
    /\ last.result = "ok"
    /\ cases[last.id].verificationId = last.vid
    /\ cases[last.id].verificationId = sessions
    /\ cases[last.id].attemptCount = 2

\* The store and the session counter after a call that runs alone, from its
\* read to its save.
Atomic(st, req) ==
    LET id == Resolve(st.cases, req)
    IN IF id = 0 THEN st
       ELSE IF CheckOf(req, st.cases[id]) # "pass" THEN st
       ELSE IF req.op = "retryKyc" /\ ~req.reply[1].ok THEN st
       ELSE IF req.op = "retryKyc"
       THEN [cases |-> [st.cases EXCEPT ![id] =
                            Outcome(st.cases[id], req, st.sessions + 1, now)],
             sessions |-> st.sessions + 1]
       ELSE [cases |-> [st.cases EXCEPT ![id] = Outcome(st.cases[id], req, 0, now)],
             sessions |-> st.sessions]

\* The stores the two calls leave when one runs after the other, from the
\* store the first of them found.
SerialOutcomes ==
    {Atomic(Atomic(base[1], inflight[o[1]]), inflight[o[2]]).cases :
        o \in {<<"w1", "w2">>, <<"w2", "w1">>}}

BothDone == \A w \in Workers : inflight[w].pc = "done"

BothSaved == \A w \in Workers : inflight[w].pc = "done" /\ inflight[w].result = "ok"

\* The case a call worked on; 0 when it found none.
TargetOf(req) == IF req.result = "NotFoundException" THEN 0 ELSE req.id

\* C28: two calls on the same case whose reads and saves interleave can lose
\* an update.  Each save writes the row the call read, changed by that call
\* alone, whatever another call saved in the meantime; the witness is a final
\* store of a webhook racing a webhook or a manual review that neither order
\* of running the two alone produces.
C28_SaveWritesWhatWasRead ==
    [][\A w \in Workers :
         (inflight[w].pc # "done" /\ inflight'[w].pc = "done" /\ inflight'[w].result = "ok")
            => cases'[inflight[w].id] =
                    Outcome(inflight[w].read[1], inflight[w], inflight[w].session, now)]_vars

C28_Witness ==
    /\ BothSaved
    /\ inflight["w1"].id = inflight["w2"].id
    /\ inflight["w1"].op = "handleWebhook"
    /\ inflight["w2"].op \in {"handleWebhook", "manualReview"}
    /\ \E w \in Workers : inflight[w].beside
    /\ cases \notin SerialOutcomes

\* C29: a webhook, manual review, retry or update leaves every stored case
\* but its own unchanged, and two calls on different cases, however their
\* reads, provider calls and saves interleave, end in a store that running
\* one after the other also produces.
C29_DifferentCasesIndependent ==
    /\ [][\A j \in DOMAIN cases : j # last'.id => cases'[j] = cases[j]]_vars
    /\ []((BothDone /\ TargetOf(inflight["w1"]) # TargetOf(inflight["w2"]))
            => cases \in SerialOutcomes)

C29_Witness ==
    /\ BothSaved
    /\ inflight["w1"].id # inflight["w2"].id
    /\ {inflight["w1"].op, inflight["w2"].op} = {"retryKyc", "handleWebhook"}
    /\ \E w \in Workers : inflight[w].beside
    /\ \A w \in Workers : cases[inflight[w].id] # base[1].cases[inflight[w].id]


\* C31: a webhook applied to a case whose isManualReview flag is set never
\* leaves the case approved; a flagged case becomes approved only by a manual
\* review.
C31_EscalatedNotApprovedByWebhook ==
    [][\A i \in DOMAIN cases :
         (cases[i].isManualReview /\ cases'[i].status = APPROVED
            /\ cases[i].status # APPROVED)
         => (last'.op = "manualReview" /\ last'.id = i)]_vars

\* C32: every stored case whose isManualReview flag is set has status
\* requires_review and so is listed by getPendingReviews; in particular no
\* case is pending with the flag set.
C32_FlaggedCasesAreListed ==
    \A i \in DOMAIN cases :
        cases[i].isManualReview
            => /\ cases[i].status = REQUIRES_REVIEW
               /\ i \in GetPendingReviews(cases)

\* C33: the newStatus of the kyc.status.changed event of a successful webhook
\* is the status that webhook left stored, also when the payload escalates.
C33_NewStatusIsStoredStatus ==
    (last.op \in WebhookOps /\ Succeeded(last))
    => \A n \in EventsOfType(events, "kyc.status.changed") :
          events[n].newStatus = cases[last.id].status

\* C34: a successful manual review leaves the case approved or rejected.
C34_ReviewDecidesApprovedOrRejected ==
    (last.op = "manualReview" /\ last.result = "ok")
    => cases[last.id].status \in {APPROVED, REJECTED}


\* The session ids the provider has handed out that no stored case holds any
\* more.  Every session is opened for a case and stored in it, by initiateKyc
\* or by retryKyc, so such an id was replaced in its case by a retry.
SupersededIds(store, n) ==
    {v \in 1..n : \A i \in DOMAIN store : store[i].verificationId # v}

\* C35: a successful retry leaves no case holding the verification id it
\* replaced, and a webhook addressed to a superseded id throws
\* NotFoundException, changes no case and emits no event.
C35_SupersededSessionNotFound ==
    /\ [][(last'.op = "retryKyc" /\ last'.result = "ok")
          => cases[last'.id].verificationId \in SupersededIds(cases', sessions')]_vars
    /\ [][(last'.op \in WebhookOps /\ last'.vid \in SupersededIds(cases, sessions))
          => /\ last'.result = "NotFoundException"
             /\ cases' = cases
             /\ events' = NoEvents]_vars

C35_Witness ==
    /\ last.op = "handleWebhook"
    /\ last.result = "NotFoundException"
    /\ last.vid \in SupersededIds(cases, sessions)
    /\ \E i \in DOMAIN cases :
          /\ cases[i].attemptCount = 2
          /\ cases[i].status = PENDING
          /\ cases[i].verificationId > last.vid


\* C36: when the provider does not open a session during a retry, the
\* gateway's HttpException reaches the caller with its message, the stored
\* cases are as they were (status, attemptCount, verificationId,
\* verificationUrl, completedAt and rejectionReason included), no session is
\* counted and no event is emitted.
C36_FailedRetryChangesNothing ==
    [][(last'.op = "retryKyc" /\ last'.provider # << >>
          /\ last'.provider[1].reply # "session")
       => /\ last'.result = "HttpException"
          /\ last'.msg = last'.provider[1].error
          /\ cases' = cases
          /\ sessions' = sessions
          /\ events' = NoEvents]_vars

C36_Witness ==
    /\ last.op = "retryKyc"
    /\ last.result = "HttpException"
    /\ last.provider # << >>
    /\ last.provider[1].reply = "unreachable"
    /\ cases[last.id].status = REJECTED
    /\ cases[last.id].attemptCount = 2
    /\ cases[last.id].completedAt # NoTime


\* isUserVerified(user, level) can answer true in this store at this time.
CanBeVerified(store, user, level, t) ==
    /\ Truthy(user)
    /\ \E id \in FindLatestApproved(store, user) : IsVerifiedOn(store, id, level, t)

\* C37: the guard answers true or throws ForbiddenException.  A route with
\* no requirement, or with required false, is always let through.  On a route
\* that requires KYC the guard lets a request through only if isUserVerified
\* for the request's user and the route's level can answer true at the query
\* on which the guard decides; a request without a user, or of a user who is
\* unverified, expired or below the required level at that query, is refused
\* with ForbiddenException.
C37_GuardAdmitsOnlyVerified ==
    [][(guard.pc # "done" /\ guard'.pc = "done")
       => LET requirement == guard'.requirement
          IN /\ guard'.result \in {"true", "ForbiddenException"}
             /\ (requirement = NoRequirement \/ ~requirement[1].required)
                   => guard'.result = "true"
             /\ (requirement # NoRequirement /\ requirement[1].required)
                   => /\ guard'.result = "true"
                           => CanBeVerified(cases, guard'.user, requirement[1].level, now)
                      /\ ~CanBeVerified(cases, guard'.user, requirement[1].level, now)
                           => guard'.result = "ForbiddenException"]_vars

C37_Witness ==
    /\ guard.pc = "done"
    /\ guard.result = "true"
    /\ guard.requirement # NoRequirement
    /\ guard.requirement[1].required
    /\ guard.isVerified = << FALSE >>
    /\ guard.userLevel # << >>

=============================================================================
